---- MODULE Spec2Model ----
(***************************************************************************)
(* Flight Disruption Engine: the PL/pgSQL propagation functions            *)
(* (calculate_blast_radius, trigger_random_delay, reset_simulation,        *)
(* update_flight_statuses, initialize_flight_times, suggest_rebookings,    *)
(* save_simulation_snapshot) and the callers that drive them (the API      *)
(* routes /api/simulate/delay, /scenario, /reset, /api/rebookings,         *)
(* /api/snapshots, the poller and the chaos-simulator edge function).      *)
(*                                                                         *)
(* Timestamps are whole minutes relative to the seed's NOW(); every        *)
(* interval the code adds is a whole number of minutes.  One RPC is one    *)
(* database transaction and is one step of the model; a handler that       *)
(* issues several RPCs with awaits between them takes several steps.       *)
(***************************************************************************)
EXTENDS Integers, Sequences, FiniteSets, TLC

VARIABLES flights, bookings, disruption_log, simulation_snapshots, now,
          api, chaos, poll, suggestions, lastCall, lastResp, ops, faults

vars == <<flights, bookings, disruption_log, simulation_snapshots, now,
          api, chaos, poll, suggestions, lastCall, lastResp, ops, faults>>

db == <<flights, bookings, disruption_log, simulation_snapshots>>

----------------------------------------------------------------------------
(* Bounds of the model *)

\* top-level triggers (manual, random, scenario, chaos) started in one run
MaxOps == 1
\* storage failures injected in one run
MaxFaults == 1
\* flights in the single-aircraft rotation of SpecChain
ChainLen == 23
\* rows of simulation_snapshots up to which POST /api/snapshots is called
MaxSnapshots == 2

(* Program constants *)

MaxDepth == 20
v_min_turnaround == 45
v_min_connection == 30
BoardingWindow == 30
\* SQL NULL for a SERIAL id column (ids start at 1)
NULL == 0

----------------------------------------------------------------------------
(* SQL helpers *)

\* a nullable TIMESTAMP is <<>> (NULL) or <<t>>
COALESCE(x, y) == IF x = <<>> THEN y ELSE x[1]

\* integer division of PostgreSQL: truncates toward zero
IntDiv(x, n) == IF x >= 0 THEN x \div n ELSE -((-x) \div n)

\* EXTRACT(EPOCH FROM (a - b))::INT / 60, a and b in minutes
EpochMinutes(a, b) == IntDiv((a - b) * 60, 60)

EffDep(f) == COALESCE(f.actual_dep, f.scheduled_dep)
EffArr(f) == COALESCE(f.actual_arr, f.scheduled_arr)

----------------------------------------------------------------------------
(* calculate_blast_radius *)

\* a STEP 1 that moves the departure and leaves the arrival where it was
DelayFlightDepartureOnly(fl, p_flight_id, p_delay_minutes) ==
    IF p_flight_id \notin DOMAIN fl THEN fl
    ELSE [fl EXCEPT ![p_flight_id] =
            [@ EXCEPT !.actual_dep = <<COALESCE(@, fl[p_flight_id].scheduled_dep)
                                        + p_delay_minutes>>,
                      !.actual_arr = <<COALESCE(@, fl[p_flight_id].scheduled_arr)>>,
                      !.delay_minutes = @ + p_delay_minutes,
                      !.status = "DELAYED"]]

\* STEP 1: UPDATE flights ... WHERE id = p_flight_id
DelayFlight(fl, p_flight_id, p_delay_minutes) ==
    IF p_flight_id \notin DOMAIN fl THEN fl
    ELSE [fl EXCEPT ![p_flight_id] =
            [@ EXCEPT !.actual_dep = <<COALESCE(@, fl[p_flight_id].scheduled_dep) + p_delay_minutes>>,
                      !.actual_arr = <<COALESCE(@, fl[p_flight_id].scheduled_arr) + p_delay_minutes>>,
                      !.delay_minutes = @ + p_delay_minutes,
                      !.status = "DELAYED"]]

\* the next-flight query without its id != p_flight_id
NextCandidatesWithSelf(fl, p_flight_id, v_aircraft_id, v_new_dep) ==
    {g \in DOMAIN fl :
        /\ v_aircraft_id # NULL
        /\ fl[g].aircraft_id = v_aircraft_id
        /\ EffDep(fl[g]) >= v_new_dep
        /\ fl[g].status \notin {"LANDED", "CANCELLED"}}

\* the WHERE clause of the next-flight query
NextCandidates(fl, p_flight_id, v_aircraft_id, v_new_dep) ==
    {g \in DOMAIN fl :
        /\ v_aircraft_id # NULL
        /\ fl[g].aircraft_id = v_aircraft_id
        /\ g # p_flight_id
        /\ EffDep(fl[g]) >= v_new_dep
        /\ fl[g].status \notin {"LANDED", "CANCELLED"}}

\* ORDER BY COALESCE(actual_dep, scheduled_dep) ASC: row g comes before row h;
\* rows with equal departure come in an order SQL leaves open, tie picks
\* lowest id first or highest id first
OrderedBefore(fl, g, h, tie) ==
    \/ EffDep(fl[g]) < EffDep(fl[h])
    \/ /\ EffDep(fl[g]) = EffDep(fl[h])
       /\ IF tie = "low" THEN g <= h ELSE g >= h

\* LIMIT 1 of the ordered rows C; NULL when there is none
FirstRow(fl, C, tie) ==
    IF C = {} THEN NULL
    ELSE CHOOSE g \in C : \A h \in C : OrderedBefore(fl, g, h, tie)

\* STEP 2: SELECT id INTO v_next_flight_id
NextFlight(fl, p_flight_id, v_aircraft_id, v_new_dep, tie) ==
    FirstRow(fl, NextCandidates(fl, p_flight_id, v_aircraft_id, v_new_dep), tie)

\* a forced delay that leaves the aircraft 20 minutes on the ground
ForcedDelayShortTurnaround(v_next_dep, v_new_arr) == 20 - EpochMinutes(v_next_dep, v_new_arr)

ForcedDelay(v_next_dep, v_new_arr) ==
    v_min_turnaround - EpochMinutes(v_next_dep, v_new_arr)

\* the rows of the STEP 3 cursor
ConnectingBookings(bk, p_flight_id) ==
    {b \in DOMAIN bk : /\ bk[b].flight_id = p_flight_id
                       /\ bk[b].next_booking_id # NULL
                       /\ bk[b].status = "CONFIRMED"}

\* a connection test that also breaks a connection of exactly 30 minutes
ConnectionBrokenAtLimit(fl, bk, b, v_new_arr) ==
    LET nb == bk[b].next_booking_id
    IN  /\ nb \in DOMAIN bk
        /\ bk[nb].flight_id \in DOMAIN fl
        /\ EpochMinutes(EffDep(fl[bk[nb].flight_id]), v_new_arr) <= v_min_connection

ConnectionBroken(fl, bk, b, v_new_arr) ==
    LET nb == bk[b].next_booking_id
    IN  /\ nb \in DOMAIN bk
        /\ bk[nb].flight_id \in DOMAIN fl
        /\ EpochMinutes(EffDep(fl[bk[nb].flight_id]), v_new_arr) < v_min_connection

\* a loop that also confirms again the missed connections onto the flight
\* that now leaves 30 minutes or more after the inbound flight arrives
MarkMissedOrRestore(fl, bk, p_flight_id, v_new_arr) ==
    LET broken == {b \in ConnectingBookings(bk, p_flight_id) :
                        ConnectionBroken(fl, bk, b, v_new_arr)}
        hit == broken \cup {bk[b].next_booking_id : b \in broken}
        mended == {b \in DOMAIN bk :
                        /\ bk[b].status = "MISSED_CONNECTION"
                        /\ bk[b].next_booking_id \in DOMAIN bk
                        /\ bk[bk[b].next_booking_id].flight_id = p_flight_id
                        /\ EpochMinutes(EffDep(fl[p_flight_id]), EffArr(fl[bk[b].flight_id]))
                                >= v_min_connection}
        back == mended \cup {bk[b].next_booking_id : b \in mended}
    IN  [b \in DOMAIN bk |->
            IF b \in hit THEN [bk[b] EXCEPT !.status = "MISSED_CONNECTION"]
            ELSE IF b \in back THEN [bk[b] EXCEPT !.status = "CONFIRMED"]
            ELSE bk[b]]

\* STEP 3: the loop marks the booking and its linked booking
MarkMissed(fl, bk, p_flight_id, v_new_arr) ==
    LET broken == {b \in ConnectingBookings(bk, p_flight_id) :
                        ConnectionBroken(fl, bk, b, v_new_arr)}
        hit == broken \cup {bk[b].next_booking_id : b \in broken}
    IN  [b \in DOMAIN bk |->
            IF b \in hit THEN [bk[b] EXCEPT !.status = "MISSED_CONNECTION"]
            ELSE bk[b]]

PaxImpacted(fl, bk, p_flight_id, v_new_arr) ==
    Cardinality({b \in ConnectingBookings(bk, p_flight_id) :
                        ConnectionBroken(fl, bk, b, v_new_arr)})

\* a guard that lets depth 21 through
DepthExceededOneLate(p_depth) == p_depth > MaxDepth + 1

\* IF p_depth > 20 THEN RETURN
DepthExceeded(p_depth) == p_depth > MaxDepth

\* a cascade test that also fires on a forced delay of 0
CascadesOnZero(v_next_flight_id, v_forced_delay) ==
    v_next_flight_id # NULL /\ v_forced_delay >= 0

\* IF v_forced_delay > 0 THEN ... PERFORM calculate_blast_radius(...)
Cascades(v_next_flight_id, v_forced_delay) ==
    v_next_flight_id # NULL /\ v_forced_delay > 0

\* the INSERT into disruption_log is rejected: flight_id references no flight
\* (found is false), or the storage fails on this INSERT
InsertFails(found, inserts, failAt) == ~found \/ inserts + 1 = failAt

\* the cause text without the id of the causing flight
TurnaroundCauseUnnamed(p_flight_id) == [text |-> "Aircraft turnaround from flight", flight |-> NULL]

TurnaroundCause(p_flight_id) ==
    [text |-> "Aircraft turnaround from flight", flight |-> p_flight_id]

\* tx is the state of the running transaction:
\*   flights, bookings, log : the tables as the transaction sees them
\*   inserts : INSERTs into disruption_log executed so far
\*   err     : an exception was raised (the transaction will roll back)
\*   steps   : one record per invocation that finished, in order of finishing
\*   guards  : the invocations the depth guard turned away
\* env.failAt = k > 0 makes the k-th INSERT of the transaction fail;
\* env.tie orders rows of equal departure
RECURSIVE calculate_blast_radius(_, _, _, _, _, _, _)

\* SELECT actual_arr, actual_dep, aircraft_id INTO v_new_arr, v_new_dep,
\* v_aircraft_id: the variables stay NULL when no row has the id
SelectFlight(fl, p_flight_id) ==
    IF p_flight_id \in DOMAIN fl
    THEN [found |-> TRUE,
          v_new_arr |-> fl[p_flight_id].actual_arr[1],
          v_new_dep |-> fl[p_flight_id].actual_dep[1],
          v_aircraft_id |-> fl[p_flight_id].aircraft_id]
    ELSE [found |-> FALSE, v_new_arr |-> 0, v_new_dep |-> 0, v_aircraft_id |-> NULL]

\* the forced delay of the selected next flight, with the counter
\* v_flights_impacted as it stands when the recursive call is issued
WithForcedDelay(fl, v, v_next_flight_id) ==
    [found |-> v.found, v_new_arr |-> v.v_new_arr, v_new_dep |-> v.v_new_dep,
     v_aircraft_id |-> v.v_aircraft_id,
     v_next_flight_id |-> v_next_flight_id,
     v_forced_delay |-> IF v_next_flight_id # NULL
                        THEN ForcedDelay(EffDep(fl[v_next_flight_id]), v.v_new_arr)
                        ELSE 0]

\* the local variables of one invocation after the two SELECTs
WithNextFlight(fl, p_flight_id, v, tie) ==
    WithForcedDelay(fl, v,
        NextFlight(fl, p_flight_id, v.v_aircraft_id, v.v_new_dep, tie))

Locals(fl, p_flight_id, tie) ==
    WithNextFlight(fl, p_flight_id, SelectFlight(fl, p_flight_id), tie)

\* STEP 2: the recursive call onto the next flight of the aircraft
Propagate(tx, v, p_flight_id, p_depth, env) ==
    IF Cascades(v.v_next_flight_id, v.v_forced_delay)
    THEN calculate_blast_radius(tx, v.v_next_flight_id, v.v_forced_delay,
                TurnaroundCause(p_flight_id), p_flight_id, p_depth + 1, env)
    ELSE tx

\* the row of disruption_log the invocation inserts
LogEntry(tx, v, p_flight_id, p_delay_minutes, p_cause, p_cascaded_from) ==
    [flight_id |-> p_flight_id,
     delay_minutes |-> p_delay_minutes,
     cause |-> p_cause,
     cascaded_from_flight_id |-> p_cascaded_from,
     passengers_impacted |-> PaxImpacted(tx.flights, tx.bookings, p_flight_id, v.v_new_arr),
     flights_impacted |-> IF Cascades(v.v_next_flight_id, v.v_forced_delay) THEN 1 ELSE 0]

\* what the invocation saw and did, for the record of the call: fl1 is the
\* flights table after STEP 1, tx the transaction after STEP 2
StepRecord(fl1, tx, v, entry, p_depth) ==
    [flight |-> entry.flight_id, depth |-> p_depth,
     delay |-> entry.delay_minutes, cause |-> entry.cause,
     from |-> entry.cascaded_from_flight_id,
     new_dep |-> v.v_new_dep, new_arr |-> v.v_new_arr,
     seen |-> [g \in DOMAIN fl1 |->
                [aircraft_id |-> fl1[g].aircraft_id,
                 dep |-> EffDep(fl1[g]),
                 status |-> fl1[g].status,
                 delay_minutes |-> fl1[g].delay_minutes]],
     next |-> v.v_next_flight_id,
     linked_dep |-> [b \in ConnectingBookings(tx.bookings, entry.flight_id) |->
                EffDep(tx.flights[tx.bookings[tx.bookings[b].next_booking_id].flight_id])],
     bpre |-> [b \in DOMAIN tx.bookings |-> tx.bookings[b].status],
     bpost |-> [b \in DOMAIN tx.bookings |->
                MarkMissed(tx.flights, tx.bookings, entry.flight_id, v.v_new_arr)[b].status],
     entry |-> entry]

\* STEP 3 and the INSERT into disruption_log
Record(fl1, tx, v, entry, p_depth, env) ==
    IF tx.err THEN tx
    ELSE IF InsertFails(v.found, tx.inserts, env.failAt)
    THEN [tx EXCEPT !.bookings = MarkMissed(tx.flights, @, entry.flight_id, v.v_new_arr),
                    !.err = TRUE]
    ELSE [tx EXCEPT !.bookings = MarkMissed(tx.flights, @, entry.flight_id, v.v_new_arr),
                    !.log = Append(@, entry),
                    !.inserts = @ + 1,
                    !.steps = Append(@, StepRecord(fl1, tx, v, entry, p_depth))]

\* STEP 2 onwards, tx2 the transaction after the recursive call returned
AfterPropagate(fl1, tx2, v, p_flight_id, p_delay_minutes, p_cause, p_cascaded_from, p_depth, env) ==
    Record(fl1, tx2, v,
           LogEntry(tx2, v, p_flight_id, p_delay_minutes, p_cause, p_cascaded_from),
           p_depth, env)

\* the invocation with its local variables v, tx1 the transaction after STEP 1
WithLocals(tx1, v, p_flight_id, p_delay_minutes, p_cause, p_cascaded_from, p_depth, env) ==
    AfterPropagate(tx1.flights, Propagate(tx1, v, p_flight_id, p_depth, env), v,
                   p_flight_id, p_delay_minutes, p_cause, p_cascaded_from, p_depth, env)

AfterDelay(tx1, p_flight_id, p_delay_minutes, p_cause, p_cascaded_from, p_depth, env) ==
    WithLocals(tx1, Locals(tx1.flights, p_flight_id, env.tie),
               p_flight_id, p_delay_minutes, p_cause, p_cascaded_from, p_depth, env)

calculate_blast_radius(tx, p_flight_id, p_delay_minutes, p_cause, p_cascaded_from, p_depth, env) ==
    IF DepthExceeded(p_depth)
    THEN [tx EXCEPT !.guards = Append(@, [flight |-> p_flight_id, depth |-> p_depth])]
    ELSE AfterDelay([tx EXCEPT !.flights = DelayFlight(@, p_flight_id, p_delay_minutes)],
                    p_flight_id, p_delay_minutes, p_cause, p_cascaded_from, p_depth, env)

\* the transaction one RPC runs in
Begin == [flights |-> flights, bookings |-> bookings, log |-> disruption_log,
          inserts |-> 0, err |-> FALSE, steps |-> <<>>, guards |-> <<>>]

\* an RPC that keeps what it wrote before the exception
CommitOnError(tx) == tx

\* an RPC that raised an exception leaves the tables as they were
Commit(tx) ==
    IF tx.err THEN [tx EXCEPT !.flights = flights, !.bookings = bookings,
                              !.log = disruption_log]
    ELSE tx

----------------------------------------------------------------------------
(* The other database functions *)

v_causes == <<"Weather delay", "ATC congestion", "Mechanical issue",
              "Crew availability", "Late incoming aircraft",
              "Security screening delay", "Gate conflict",
              "Baggage handling delay">>

\* RANDOM() and Math.random() in thousandths: a value of [0, 1)
RandomDraws == {0, 999}

\* FLOOR(15 + (RANDOM() * 165))::INT
RandomDelay(r) == (15 * 1000 + r * 165) \div 1000

\* v_causes[1 + FLOOR(RANDOM() * array_length(v_causes, 1))::INT]
RandomCause(r) == v_causes[1 + (r * Len(v_causes)) \div 1000]

\* a pick that also takes DELAYED flights
RandomEligibleWithDelayed(fl) ==
    {f \in DOMAIN fl : fl[f].status \in {"SCHEDULED", "ACTIVE", "BOARDING", "DELAYED"}}

\* the rows trigger_random_delay picks from
RandomEligible(fl) ==
    {f \in DOMAIN fl : fl[f].status \in {"SCHEDULED", "ACTIVE", "BOARDING"}}

\* ORDER BY RANDOM() LIMIT 1: any of the rows, NULL when there is none
RandomPick(fl) == IF RandomEligible(fl) = {} THEN {NULL} ELSE RandomEligible(fl)

\* trigger_random_delay with v_flight_id the row picked
trigger_random_delay(tx, v_flight_id, r1, r2, env) ==
    IF v_flight_id = NULL THEN tx
    ELSE calculate_blast_radius(tx, v_flight_id, RandomDelay(r1),
            [text |-> RandomCause(r2), flight |-> NULL], NULL, 0, env)

\* a reset that leaves the status of the flights as it is
ResetFlightsKeepingStatus(fl) ==
    [f \in DOMAIN fl |->
        [fl[f] EXCEPT !.actual_dep = <<fl[f].scheduled_dep>>,
                      !.actual_arr = <<fl[f].scheduled_arr>>,
                      !.delay_minutes = 0]]

reset_flights(fl) ==
    [f \in DOMAIN fl |->
        [fl[f] EXCEPT !.actual_dep = <<fl[f].scheduled_dep>>,
                      !.actual_arr = <<fl[f].scheduled_arr>>,
                      !.delay_minutes = 0,
                      !.status = "SCHEDULED"]]

\* a reset that leaves the bookings as they are
ResetBookingsKeepingMissed(bk) == bk

reset_bookings(bk) ==
    [b \in DOMAIN bk |-> [bk[b] EXCEPT !.status = "CONFIRMED"]]

\* the three UPDATEs of update_flight_statuses, one after the other
ToBoarding(fl, t) ==
    [f \in DOMAIN fl |->
        IF /\ fl[f].status = "SCHEDULED"
           /\ EffDep(fl[f]) <= t + BoardingWindow
           /\ EffDep(fl[f]) > t
        THEN [fl[f] EXCEPT !.status = "BOARDING"] ELSE fl[f]]

\* a second UPDATE without its test on the arrival
ToActiveIgnoringArrival(fl, t) ==
    [f \in DOMAIN fl |->
        IF /\ fl[f].status \in {"BOARDING", "DELAYED"}
           /\ EffDep(fl[f]) <= t
        THEN [fl[f] EXCEPT !.status = "ACTIVE"] ELSE fl[f]]

ToActive(fl, t) ==
    [f \in DOMAIN fl |->
        IF /\ fl[f].status \in {"BOARDING", "DELAYED"}
           /\ EffDep(fl[f]) <= t
           /\ EffArr(fl[f]) > t
        THEN [fl[f] EXCEPT !.status = "ACTIVE"] ELSE fl[f]]

ToLanded(fl, t) ==
    [f \in DOMAIN fl |->
        IF fl[f].status = "ACTIVE" /\ EffArr(fl[f]) <= t
        THEN [fl[f] EXCEPT !.status = "LANDED"] ELSE fl[f]]

\* the UPDATEs in the opposite order, the second without its test on the
\* arrival: a flight past its arrival needs two ticks to land
UpdateStatusesLandedFirst(fl, t) ==
    ToBoarding(ToActiveIgnoringArrival(ToLanded(fl, t), t), t)

update_flight_statuses(fl, t) == ToLanded(ToActive(ToBoarding(fl, t), t), t)

initialize_flight_times(fl) ==
    [f \in DOMAIN fl |->
        IF fl[f].actual_dep = <<>>
        THEN [fl[f] EXCEPT !.actual_dep = <<fl[f].scheduled_dep>>,
                           !.actual_arr = <<fl[f].scheduled_arr>>]
        ELSE fl[f]]

RECURSIVE SumDelay(_, _)
SumDelay(fl, S) ==
    IF S = {} THEN 0
    ELSE LET f == CHOOSE x \in S : TRUE
         IN  fl[f].delay_minutes + SumDelay(fl, S \ {f})

\* the metrics with the missed connections counted per passenger
MetricsCountingPassengers(fl, bk) ==
    LET delayed == {f \in DOMAIN fl : fl[f].status = "DELAYED"}
        missed == {b \in DOMAIN bk : bk[b].status = "MISSED_CONNECTION"}
    IN  [delayed_flights |-> Cardinality(delayed),
         missed_connections |-> Cardinality({bk[b].passenger_id : b \in missed}),
         total_delay_minutes |-> SumDelay(fl, delayed),
         impacted_passengers |-> Cardinality({bk[b].passenger_id : b \in missed})]

Metrics(fl, bk) ==
    LET delayed == {f \in DOMAIN fl : fl[f].status = "DELAYED"}
        missed == {b \in DOMAIN bk : bk[b].status = "MISSED_CONNECTION"}
    IN  [delayed_flights |-> Cardinality(delayed),
         missed_connections |-> Cardinality(missed),
         total_delay_minutes |-> SumDelay(fl, delayed),
         impacted_passengers |-> Cardinality({bk[b].passenger_id : b \in missed})]

save_simulation_snapshot(snaps, fl, bk, p_label) ==
    Append(snaps,
        [label |-> p_label,
         flights_data |-> fl,
         missed_connections_data |->
            {[booking_id |-> b, from_flight |-> bk[b].flight_id,
              missed_flight |-> IF bk[b].next_booking_id \in DOMAIN bk
                                THEN bk[bk[b].next_booking_id].flight_id
                                ELSE NULL] :
                b \in {x \in DOMAIN bk : bk[x].status = "MISSED_CONNECTION"}},
         metrics |-> Metrics(fl, bk)])

----------------------------------------------------------------------------
(* The scenario catalog of the API route and of the chaos-simulator *)

SCENARIOS ==
    [snowstorm_jfk |-> [label |-> "Snowstorm at JFK", airport |-> "JFK",
                        delays |-> <<120, 180, 240>>,
                        cause |-> "Heavy snowstorm - JFK ground stop"],
     crew_strike_lhr |-> [label |-> "Crew Strike at LHR", airport |-> "LHR",
                        delays |-> <<90, 150, 200>>,
                        cause |-> "Cabin crew industrial action - LHR"],
     fog_cdg |-> [label |-> "Dense Fog at CDG", airport |-> "CDG",
                        delays |-> <<60, 90, 120>>,
                        cause |-> "Dense fog - CDG low visibility operations"],
     atc_failure_fra |-> [label |-> "ATC System Failure at FRA", airport |-> "FRA",
                        delays |-> <<100, 140, 180>>,
                        cause |-> "ATC radar system failure - FRA ground stop"],
     typhoon_hnd |-> [label |-> "Typhoon near HND", airport |-> "HND",
                        delays |-> <<180, 240, 300>>,
                        cause |-> "Typhoon approach - HND departures suspended"]]

\* a draw that halves the candidate it picks
DepartureDelayHalved(config, r) ==
    config.delays[1 + (r * Len(config.delays)) \div 1000] \div 2

\* config.delays[Math.floor(Math.random() * config.delays.length)]
DepartureDelay(config, r) == config.delays[1 + (r * Len(config.delays)) \div 1000]

\* an arrival hold of the full first candidate
ArrivalDelayInFull(config) == config.delays[1]

\* Math.floor(config.delays[0] * 0.5)
ArrivalDelay(config) == config.delays[1] \div 2

NonTerminal == {"SCHEDULED", "BOARDING", "ACTIVE"}

AffectedDepartures(fl, airport) ==
    {f \in DOMAIN fl : fl[f].origin_code = airport /\ fl[f].status \in NonTerminal}

AffectedArrivals(fl, airport) ==
    {f \in DOMAIN fl : fl[f].destination_code = airport /\ fl[f].status \in NonTerminal}

----------------------------------------------------------------------------
(* Inputs *)

\* a flight id no row has
NoSuchFlight == 99

\* the bodies sent to POST /api/simulate/delay: sent holds the keys the body
\* has; a key it lacks reads as undefined, which is NULL for flightId and 0
\* for delayMinutes (both falsy, as the number 0 is)
DelayRequests ==
    [flightId : DOMAIN flights \cup {NoSuchFlight}, delayMinutes : {-30, 15, 16},
     sent : {{"flightId", "delayMinutes"}}]
    \cup {[flightId |-> NULL, delayMinutes |-> 0, sent |-> {}],
          [flightId |-> 1, delayMinutes |-> 0, sent |-> {"flightId", "delayMinutes"}],
          [flightId |-> 1, delayMinutes |-> 0, sent |-> {"flightId"}],
          [flightId |-> NULL, delayMinutes |-> 15, sent |-> {"delayMinutes"}]}

\* req.body.scenario; "volcano" is in no catalog
ScenarioInputs == {"snowstorm_jfk", "volcano"}
\* the request bodies sent to the chaos-simulator; the cron invocation has none
ChaosRequests == {[mode |-> "random", scenario |-> ""],
                  [mode |-> "scenario", scenario |-> "snowstorm_jfk"],
                  [mode |-> "scenario", scenario |-> "volcano"]}

\* the instants at which the model looks at the clock
ClockValues == {0, 60, 120}

\* the storage failures that may be injected into one RPC: 0 is none
FailAtInputs == IF faults < MaxFaults THEN {0, 1} ELSE {0}
Envs == [failAt : FailAtInputs, tie : {"low", "high"}]

Idle == [pc |-> "idle", mode |-> "random", scenario |-> "", todo |-> {},
         ok |-> {}, failed |-> {}]

----------------------------------------------------------------------------
(* Recording one RPC of calculate_blast_radius or trigger_random_delay *)

Call(tx, p_flight_id, p_delay_minutes) ==
    [seq |-> 1 - lastCall.seq,
     flight |-> p_flight_id, delay |-> p_delay_minutes,
     pre |-> [flights |-> flights, bookings |-> bookings, log |-> disruption_log],
     post |-> [flights |-> Commit(tx).flights, bookings |-> Commit(tx).bookings,
               log |-> Commit(tx).log],
     touched |-> {f \in DOMAIN flights : tx.flights[f] # flights[f]},
     steps |-> tx.steps, guards |-> tx.guards, err |-> tx.err]

\* the tables after the RPC, and the record of it
Rpc(tx, p_flight_id, p_delay_minutes, env) ==
    /\ flights' = Commit(tx).flights
    /\ bookings' = Commit(tx).bookings
    /\ disruption_log' = Commit(tx).log
    /\ lastCall' = Call(tx, p_flight_id, p_delay_minutes)
    /\ faults' = IF env.failAt # 0 THEN faults + 1 ELSE faults

ManualCause == [text |-> "Manual delay trigger", flight |-> NULL]

----------------------------------------------------------------------------
(* POST /api/simulate/delay *)

\* the bodies that take the else branch: flightId or delayMinutes is falsy
RandomBodies == {body \in DelayRequests : body.flightId = NULL \/ body.delayMinutes = 0}

ApiSimulateDelay ==
    /\ ops < MaxOps
    /\ ops' = ops + 1
    /\ \/ \E body \in DelayRequests \ RandomBodies, env \in Envs :
            \E tx \in {calculate_blast_radius(Begin, body.flightId, body.delayMinutes,
                                                ManualCause, NULL, 0, env)} :
                /\ Rpc(tx, body.flightId, body.delayMinutes, env)
                /\ IF tx.err
                   THEN /\ lastResp' = [op |-> "delay", code |-> 500, failed |-> 1, flights_affected |-> 0,
                                          body |-> body]
                        /\ UNCHANGED simulation_snapshots
                   ELSE /\ lastResp' = [op |-> "delay", code |-> 200, failed |-> 0, flights_affected |-> 0,
                                          body |-> body]
                        /\ simulation_snapshots' = save_simulation_snapshot(
                              simulation_snapshots, tx.flights, tx.bookings,
                              "Manual Delay: Random")
       \/ \E body \in RandomBodies :
            \E v_flight_id \in RandomPick(flights), r1 \in RandomDraws,
                r2 \in RandomDraws, env \in Envs :
                \E tx \in {trigger_random_delay(Begin, v_flight_id, r1, r2, env)} :
                    /\ Rpc(tx, v_flight_id, RandomDelay(r1), env)
                    /\ IF tx.err
                       THEN /\ lastResp' = [op |-> "delay", code |-> 500, failed |-> 1, flights_affected |-> 0,
                                          body |-> body]
                            /\ UNCHANGED simulation_snapshots
                       ELSE /\ lastResp' = [op |-> "delay", code |-> 200, failed |-> 0, flights_affected |-> 0,
                                          body |-> body]
                            /\ simulation_snapshots' = save_simulation_snapshot(
                                  simulation_snapshots, tx.flights, tx.bookings,
                                  "Manual Delay: Random")
    /\ UNCHANGED <<suggestions, now, poll, api, chaos>>

----------------------------------------------------------------------------
(* POST /api/simulate/scenario: one step per awaited call *)

ApiScenarioStart ==
    /\ api.pc = "idle"
    /\ ops < MaxOps
    /\ ops' = ops + 1
    /\ \E scenario \in ScenarioInputs :
        IF scenario \notin DOMAIN SCENARIOS
        THEN /\ lastResp' = [op |-> "scenario", code |-> 400, failed |-> 0,
                              flights_affected |-> 0]
             /\ api' = [Idle EXCEPT !.mode = "scenario", !.scenario = scenario]
        ELSE /\ api' = [Idle EXCEPT !.pc = "departures", !.mode = "scenario",
                                    !.scenario = scenario,
                                    !.todo = AffectedDepartures(flights,
                                                SCENARIOS[scenario].airport)]
             /\ UNCHANGED lastResp
    /\ UNCHANGED <<suggestions, db, now, poll, chaos, lastCall, faults>>

\* one iteration of a scenario loop of process p, leaving p as q; delay[r] is
\* the delay the loop computes when Math.random() returns r
ScenarioRpc(p, q, delay, suffix) ==
    \E f \in p.todo, r \in RandomDraws, env \in Envs :
        \E tx \in {calculate_blast_radius(Begin, f, delay[r],
                        [text |-> SCENARIOS[p.scenario].cause \o suffix, flight |-> NULL],
                        NULL, 0, env)} :
            /\ Rpc(tx, f, delay[r], env)
            /\ q = [p EXCEPT !.todo = @ \ {f},
                             !.ok = IF tx.err THEN @ ELSE @ \cup {f},
                             !.failed = IF tx.err THEN @ \cup {f} ELSE @]

ApiScenarioDeparture ==
    /\ api.pc = "departures"
    /\ api.todo # {}
    /\ ScenarioRpc(api, api',
            [r \in RandomDraws |-> DepartureDelay(SCENARIOS[api.scenario], r)], "")
    /\ UNCHANGED <<suggestions, simulation_snapshots, now, poll, chaos, lastResp, ops>>

ApiScenarioArrivalsQuery ==
    /\ api.pc = "departures"
    /\ api.todo = {}
    /\ api' = [api EXCEPT !.pc = "arrivals",
                          !.todo = AffectedArrivals(flights, SCENARIOS[api.scenario].airport)]
    /\ UNCHANGED <<suggestions, db, now, poll, chaos, lastCall, lastResp, ops, faults>>

ApiScenarioArrival ==
    /\ api.pc = "arrivals"
    /\ api.todo # {}
    /\ ScenarioRpc(api, api',
            [r \in RandomDraws |-> ArrivalDelay(SCENARIOS[api.scenario])],
            " (arrival hold)")
    /\ UNCHANGED <<suggestions, simulation_snapshots, now, poll, chaos, lastResp, ops>>

ApiScenarioFinish ==
    /\ api.pc = "arrivals"
    /\ api.todo = {}
    /\ simulation_snapshots' = save_simulation_snapshot(simulation_snapshots,
            flights, bookings, "Scenario: " \o SCENARIOS[api.scenario].label)
    /\ lastResp' = [op |-> "scenario", code |-> 200,
                    failed |-> Cardinality(api.failed),
                    flights_affected |-> Cardinality(api.ok)]
    /\ api' = [api EXCEPT !.pc = "idle"]
    /\ UNCHANGED <<suggestions, flights, bookings, disruption_log, now, poll, chaos, lastCall, ops, faults>>

----------------------------------------------------------------------------
(* supabase/functions/chaos-simulator: one step per awaited call *)

ChaosStart ==
    /\ chaos.pc = "idle"
    /\ ops < MaxOps
    /\ ops' = ops + 1
    /\ \E body \in ChaosRequests, env \in Envs :
      LET mode == body.mode
          scenarioId == body.scenario
      IN
        \/ /\ mode = "scenario" /\ scenarioId # "" /\ scenarioId \in DOMAIN SCENARIOS
           /\ chaos' = [Idle EXCEPT !.pc = "departures", !.mode = mode,
                                    !.scenario = scenarioId,
                                    !.todo = AffectedDepartures(flights,
                                                SCENARIOS[scenarioId].airport)]
           /\ UNCHANGED <<flights, bookings, disruption_log, lastCall, lastResp, faults>>
        \/ /\ ~(mode = "scenario" /\ scenarioId # "" /\ scenarioId \in DOMAIN SCENARIOS)
           /\ \E v_flight_id \in RandomPick(flights), r1 \in RandomDraws, r2 \in RandomDraws :
                \E tx \in {trigger_random_delay(Begin, v_flight_id, r1, r2, env)} :
                    /\ Rpc(tx, v_flight_id, RandomDelay(r1), env)
                    /\ IF tx.err
                       THEN /\ lastResp' = [op |-> "chaos", code |-> 500, failed |-> 1, flights_affected |-> 0]
                            /\ chaos' = [Idle EXCEPT !.mode = mode, !.scenario = scenarioId]
                       ELSE /\ UNCHANGED lastResp
                            /\ chaos' = [Idle EXCEPT !.pc = "snapshot", !.mode = mode,
                                                     !.scenario = scenarioId]
    /\ UNCHANGED <<suggestions, simulation_snapshots, now, poll, api>>

ChaosDeparture ==
    /\ chaos.pc = "departures"
    /\ chaos.todo # {}
    /\ ScenarioRpc(chaos, chaos',
            [r \in RandomDraws |-> DepartureDelay(SCENARIOS[chaos.scenario], r)], "")
    /\ UNCHANGED <<suggestions, simulation_snapshots, now, poll, api, lastResp, ops>>

ChaosArrivalsQuery ==
    /\ chaos.pc = "departures"
    /\ chaos.todo = {}
    /\ chaos' = [chaos EXCEPT !.pc = "arrivals",
                    !.todo = AffectedArrivals(flights, SCENARIOS[chaos.scenario].airport)]
    /\ UNCHANGED <<suggestions, db, now, poll, api, lastCall, lastResp, ops, faults>>

ChaosArrival ==
    /\ chaos.pc = "arrivals"
    /\ chaos.todo # {}
    /\ ScenarioRpc(chaos, chaos',
            [r \in RandomDraws |-> ArrivalDelay(SCENARIOS[chaos.scenario])],
            " (arrival hold)")
    /\ UNCHANGED <<suggestions, simulation_snapshots, now, poll, api, lastResp, ops>>

ChaosSnapshot ==
    /\ \/ chaos.pc = "snapshot"
       \/ chaos.pc = "arrivals" /\ chaos.todo = {}
    /\ simulation_snapshots' = save_simulation_snapshot(simulation_snapshots,
            flights, bookings,
            IF chaos.mode # "scenario" THEN "Auto Chaos (cron)"
            ELSE IF chaos.scenario \in DOMAIN SCENARIOS
            THEN "Chaos: " \o SCENARIOS[chaos.scenario].label
            ELSE "Chaos: " \o chaos.scenario)
    /\ chaos' = [chaos EXCEPT !.pc = "statuses"]
    /\ UNCHANGED <<suggestions, flights, bookings, disruption_log, now, poll, api, lastCall, lastResp,
                   ops, faults>>

ChaosStatuses ==
    /\ chaos.pc = "statuses"
    /\ flights' = update_flight_statuses(flights, now)
    /\ lastResp' = [op |-> "chaos", code |-> 200,
                    failed |-> Cardinality(chaos.failed),
                    flights_affected |-> IF chaos.mode = "scenario"
                                              /\ chaos.scenario \in DOMAIN SCENARIOS
                                         THEN Cardinality(chaos.ok) ELSE 1]
    /\ chaos' = [chaos EXCEPT !.pc = "idle"]
    /\ UNCHANGED <<suggestions, bookings, disruption_log, simulation_snapshots, now, poll, api,
                   lastCall, ops, faults>>

----------------------------------------------------------------------------
(* The other callers *)

\* POST /api/simulate/reset
ApiSimulateReset ==
    /\ flights' = reset_flights(flights)
    /\ bookings' = reset_bookings(bookings)
    /\ disruption_log' = <<>>
    /\ lastResp' = [op |-> "reset", code |-> 200, failed |-> 0, flights_affected |-> 0]
    /\ UNCHANGED <<suggestions, simulation_snapshots, now, poll, api, chaos, lastCall, ops, faults>>

\* startScheduling, the status-updater cron job, POST /api/simulate/update-statuses
StatusTick ==
    /\ flights' = update_flight_statuses(flights, now)
    /\ UNCHANGED <<suggestions, bookings, disruption_log, simulation_snapshots, now, poll, api, chaos,
                   lastCall, lastResp, ops, faults>>

\* the chaos-loop cron job
CronChaos ==
    /\ ops < MaxOps
    /\ ops' = ops + 1
    /\ \E v_flight_id \in RandomPick(flights), r1 \in RandomDraws, r2 \in RandomDraws,
          env \in Envs :
        \E tx \in {trigger_random_delay(Begin, v_flight_id, r1, r2, env)} :
            /\ Rpc(tx, v_flight_id, RandomDelay(r1), env)
            \* the two statements of the job run in one transaction
            /\ simulation_snapshots' =
                    IF tx.err THEN simulation_snapshots
                    ELSE save_simulation_snapshot(simulation_snapshots,
                            tx.flights, tx.bookings, "Auto Chaos (cron)")
    /\ UNCHANGED <<suggestions, now, poll, api, chaos, lastResp>>

\* POST /api/snapshots
ApiSaveSnapshot ==
    /\ Len(simulation_snapshots) < MaxSnapshots
    /\ \E label \in {""} :
          simulation_snapshots' = save_simulation_snapshot(simulation_snapshots,
                flights, bookings, IF label = "" THEN "Manual Snapshot" ELSE label)
    /\ UNCHANGED <<suggestions, flights, bookings, disruption_log, now, poll, api, chaos,
                   lastCall, lastResp, ops, faults>>

InitializeFlightTimes ==
    /\ flights' = initialize_flight_times(flights)
    /\ UNCHANGED <<suggestions, bookings, disruption_log, simulation_snapshots, now, poll, api, chaos,
                   lastCall, lastResp, ops, faults>>

\* NOW() moves on
AdvanceTime ==
    /\ \E t \in ClockValues : t > now /\ now' = t
    /\ UNCHANGED <<suggestions, db, api, chaos, poll, lastCall, lastResp, ops, faults>>

----------------------------------------------------------------------------
(* fetchWorldState, called by startPolling every two seconds: one step per  *)
(* awaited query.  The per-row lookups of the missed-connection loop read   *)
(* columns no operation writes (bookings.flight_id and the codes of flights *)
(* and airports) and are part of the step of the query before them; the     *)
(* cost estimate is computed from totalDelay and uniquePax and left out.    *)

NoPoll == [pc |-> "idle", flights |-> <<>>, missedConnections |-> {},
           delayedCount |-> 0, missedCount |-> 0, totalDelay |-> 0, uniquePax |-> {}]

\* supabase.from('flights').select(...)
FetchFlights ==
    /\ poll.pc \in {"idle", "emitted"}
    /\ poll' = [NoPoll EXCEPT !.pc = "missedBookings", !.flights = flights]
    /\ UNCHANGED <<suggestions, db, now, api, chaos, lastCall, lastResp, ops, faults>>

\* the bookings with status MISSED_CONNECTION and a next_booking_id
FetchMissedBookings ==
    /\ poll.pc = "missedBookings"
    /\ poll' = [poll EXCEPT !.pc = "delayedCount",
                    !.missedConnections =
                        {[booking_id |-> b, from_flight |-> bookings[b].flight_id,
                          missed_flight |-> IF bookings[b].next_booking_id \in DOMAIN bookings
                                            THEN bookings[bookings[b].next_booking_id].flight_id
                                            ELSE NULL] :
                            b \in {x \in DOMAIN bookings :
                                        /\ bookings[x].status = "MISSED_CONNECTION"
                                        /\ bookings[x].next_booking_id # NULL}}]
    /\ UNCHANGED <<suggestions, db, now, api, chaos, lastCall, lastResp, ops, faults>>

\* count of flights with status DELAYED
FetchDelayedCount ==
    /\ poll.pc = "delayedCount"
    /\ poll' = [poll EXCEPT !.pc = "missedCount",
                    !.delayedCount = Metrics(flights, bookings).delayed_flights]
    /\ UNCHANGED <<suggestions, db, now, api, chaos, lastCall, lastResp, ops, faults>>

\* count of bookings with status MISSED_CONNECTION
FetchMissedCount ==
    /\ poll.pc = "missedCount"
    /\ poll' = [poll EXCEPT !.pc = "delaySum",
                    !.missedCount = Metrics(flights, bookings).missed_connections]
    /\ UNCHANGED <<suggestions, db, now, api, chaos, lastCall, lastResp, ops, faults>>

\* delay_minutes of the DELAYED flights, summed by reduce
FetchDelaySum ==
    /\ poll.pc = "delaySum"
    /\ poll' = [poll EXCEPT !.pc = "impactedPax",
                    !.totalDelay = Metrics(flights, bookings).total_delay_minutes]
    /\ UNCHANGED <<suggestions, db, now, api, chaos, lastCall, lastResp, ops, faults>>

\* passenger_id of the MISSED_CONNECTION bookings; the state is returned and
\* emitted as world_state
FetchImpactedPax ==
    /\ poll.pc = "impactedPax"
    /\ poll' = [poll EXCEPT !.pc = "emitted",
                    !.uniquePax = {bookings[b].passenger_id :
                        b \in {x \in DOMAIN bookings :
                                    bookings[x].status = "MISSED_CONNECTION"}}]
    /\ UNCHANGED <<suggestions, db, now, api, chaos, lastCall, lastResp, ops, faults>>

----------------------------------------------------------------------------
(* suggest_rebookings and GET /api/rebookings *)

\* aircraft.capacity, by aircraft id
Capacity == <<5, 5, 1, 1, 1, 2, 1, 5>>

\* the rows of the outer cursor
StrandedBookings(bk) ==
    {b \in DOMAIN bk : /\ bk[b].status = "MISSED_CONNECTION"
                       /\ bk[b].next_booking_id # NULL}

\* SELECT ... INTO v_missed_flight: the flight of the next booking; NULL when
\* the join has no row
MissedFlight(fl, bk, b) ==
    IF /\ bk[b].next_booking_id \in DOMAIN bk
       /\ bk[bk[b].next_booking_id].flight_id \in DOMAIN fl
    THEN bk[bk[b].next_booking_id].flight_id
    ELSE NULL

\* an inner query without its test on the status
RebookCandidatesAnyStatus(fl, v_missed_flight, t) ==
    {f \in DOMAIN fl :
        /\ fl[f].aircraft_id \in DOMAIN Capacity
        /\ fl[f].origin_code = fl[v_missed_flight].origin_code
        /\ fl[f].destination_code = fl[v_missed_flight].destination_code
        /\ EffDep(fl[f]) > t
        /\ f # v_missed_flight}

\* the WHERE clause of the inner query (JOIN aircraft drops a flight without
\* an aircraft)
RebookCandidates(fl, v_missed_flight, t) ==
    {f \in DOMAIN fl :
        /\ fl[f].aircraft_id \in DOMAIN Capacity
        /\ fl[f].origin_code = fl[v_missed_flight].origin_code
        /\ fl[f].destination_code = fl[v_missed_flight].destination_code
        /\ EffDep(fl[f]) > t
        /\ fl[f].status \notin {"LANDED", "CANCELLED"}
        /\ f # v_missed_flight}

\* a LIMIT of four rows
FirstFour(fl, C, tie) ==
    {f \in C : Cardinality({g \in C : g # f /\ OrderedBefore(fl, g, f, tie)}) < 4}

\* ORDER BY COALESCE(actual_dep, scheduled_dep) ASC LIMIT 3
FirstThree(fl, C, tie) ==
    {f \in C : Cardinality({g \in C : g # f /\ OrderedBefore(fl, g, f, tie)}) < 3}

\* SELECT COUNT(*) INTO v_booked_seats
BookedSeats(bk, f) ==
    Cardinality({b \in DOMAIN bk : /\ bk[b].flight_id = f
                                   /\ bk[b].status \in {"CONFIRMED", "REBOOKED"}})

\* v_suggested.capacity - v_booked_seats
SeatsAvailable(fl, bk, f) == Capacity[fl[f].aircraft_id] - BookedSeats(bk, f)

\* the inner loop: the first of the rows R with a seat, NULL when none has
Suggested(fl, bk, R, tie) ==
    FirstRow(fl, {f \in R : SeatsAvailable(fl, bk, f) > 0}, tie)

\* the row RETURN NEXT emits
SuggestionRow(fl, bk, b, v_missed_flight, v_suggested) ==
    [booking_id |-> b,
     passenger_id |-> bk[b].passenger_id,
     missed_flight_id |-> v_missed_flight,
     missed_origin |-> fl[v_missed_flight].origin_code,
     missed_destination |-> fl[v_missed_flight].destination_code,
     suggested_flight_id |-> v_suggested,
     suggested_dep |-> EffDep(fl[v_suggested]),
     suggested_arr |-> EffArr(fl[v_suggested]),
     seats_available |-> SeatsAvailable(fl, bk, v_suggested),
     time_saved_minutes |-> EpochMinutes(EffArr(fl[v_missed_flight]),
                                         EffArr(fl[v_suggested]))]

\* the suggestion for the stranded booking b, as a set of no or one row
SuggestionsFor(fl, bk, b, v_missed_flight, t, tie) ==
    IF v_missed_flight = NULL THEN {}
    ELSE {SuggestionRow(fl, bk, b, v_missed_flight, v_suggested) :
            v_suggested \in {Suggested(fl, bk,
                FirstThree(fl, RebookCandidates(fl, v_missed_flight, t), tie), tie)}
                    \ {NULL}}

suggest_rebookings(fl, bk, t, tie) ==
    UNION {SuggestionsFor(fl, bk, b, MissedFlight(fl, bk, b), t, tie) :
                b \in StrandedBookings(bk)}

\* GET /api/rebookings
ApiRebookings ==
    /\ \E tie \in {"low", "high"} :
            suggestions' = suggest_rebookings(flights, bookings, now, tie)
    /\ UNCHANGED <<db, now, api, chaos, poll, lastCall, lastResp, ops, faults>>

----------------------------------------------------------------------------
(* The seeded network *)

Flight(aircraft, origin, destination, dep, arr, initialized) ==
    [aircraft_id |-> aircraft, origin_code |-> origin, destination_code |-> destination,
     scheduled_dep |-> dep, scheduled_arr |-> arr,
     actual_dep |-> IF initialized THEN <<dep>> ELSE <<>>,
     actual_arr |-> IF initialized THEN <<arr>> ELSE <<>>,
     delay_minutes |-> 0, status |-> "SCHEDULED"]

Booking(passenger, flight, next) ==
    [passenger_id |-> passenger, flight_id |-> flight, next_booking_id |-> next,
     status |-> "CONFIRMED"]

\* aircraft 1 flies 1 then 2 with 60 minutes on the ground; aircraft 2 flies
\* 3 then 4 with 45; flight 3 leaves 45 minutes after flight 1 arrives
SeedFlights ==
    <<Flight(1, "JFK", "LHR", 30, 90, TRUE),
      Flight(1, "LHR", "JFK", 150, 210, TRUE),
      Flight(2, "LHR", "CDG", 135, 195, FALSE),
      Flight(2, "CDG", "JFK", 240, 300, TRUE)>>

\* passenger 1: flight 1 then 3; passenger 2: flight 1 then 2 (same aircraft);
\* passenger 3: flight 3 then 4
SeedBookings ==
    <<Booking(1, 1, 2), Booking(1, 3, NULL),
      Booking(2, 1, 4), Booking(2, 2, NULL),
      Booking(3, 3, 6), Booking(3, 4, NULL)>>

NoCall == [seq |-> 0, flight |-> NULL, delay |-> 0,
           pre |-> [flights |-> <<>>, bookings |-> <<>>, log |-> <<>>],
           post |-> [flights |-> <<>>, bookings |-> <<>>, log |-> <<>>],
           touched |-> {}, steps |-> <<>>, guards |-> <<>>, err |-> FALSE]

InitWith(fl, bk) ==
    /\ flights = fl
    /\ bookings = bk
    /\ disruption_log = <<>>
    /\ simulation_snapshots = <<>>
    /\ now = 0
    /\ api = Idle
    /\ chaos = Idle
    /\ poll = NoPoll
    /\ suggestions = {}
    /\ lastCall = NoCall
    \* the last response sent: failed counts the RPCs of the request that
    \* returned an error (the handlers do not report it)
    /\ lastResp = [op |-> "none", code |-> 0, failed |-> 0, flights_affected |-> 0]
    /\ ops = 0
    /\ faults = 0

Init == InitWith(SeedFlights, SeedBookings)

Next ==
    \/ ApiSimulateDelay
    \/ ApiScenarioStart
    \/ ApiScenarioDeparture
    \/ ApiScenarioArrivalsQuery
    \/ ApiScenarioArrival
    \/ ApiScenarioFinish
    \/ ChaosStart
    \/ ChaosDeparture
    \/ ChaosArrivalsQuery
    \/ ChaosArrival
    \/ ChaosSnapshot
    \/ ChaosStatuses
    \/ ApiSimulateReset
    \/ StatusTick
    \/ CronChaos
    \/ InitializeFlightTimes
    \/ AdvanceTime

Spec == Init /\ [][Next]_vars

----------------------------------------------------------------------------
(* One long rotation: flights 1..ChainLen of aircraft 1 follow each other  *)
(* with the minimum 45 minutes on the ground, except 60 minutes between    *)
(* flights 2 and 3; flight ChainLen + 1 of aircraft 2 leaves 45 minutes    *)
(* after flight 2 arrives and carries its connecting passengers; flight     *)
(* ChainLen + 2 is a second flight of aircraft 1 in flight 2's slot (the   *)
(* schema has no constraint against it).                                   *)

ChainDep(i) == 30 + 100 * (i - 1) + (IF i >= 3 THEN 15 ELSE 0)

ChainFlights ==
    [i \in 1..(ChainLen + 2) |->
        IF i <= ChainLen
        THEN Flight(1, IF i % 2 = 1 THEN "JFK" ELSE "LHR",
                       IF i % 2 = 1 THEN "LHR" ELSE "JFK",
                       ChainDep(i), ChainDep(i) + 55, TRUE)
        ELSE IF i = ChainLen + 1
        THEN Flight(2, "JFK", "CDG", ChainDep(2) + 55 + 45, ChainDep(2) + 55 + 145, TRUE)
        ELSE Flight(1, "LHR", "JFK", ChainDep(2), ChainDep(2) + 55, TRUE)]

ChainBookings ==
    <<Booking(1, 2, 2), Booking(1, ChainLen + 1, NULL),
      Booking(2, 2, 4), Booking(2, 3, NULL),
      Booking(3, 1, 6), Booking(3, 2, NULL)>>

InitChain == InitWith(ChainFlights, ChainBookings)

NextChain ==
    \/ ApiSimulateDelay
    \/ ApiSimulateReset

SpecChain == InitChain /\ [][NextChain]_vars

----------------------------------------------------------------------------
(* The poller next to the admin routes *)

NextRead ==
    \/ FetchFlights
    \/ FetchMissedBookings
    \/ FetchDelayedCount
    \/ FetchMissedCount
    \/ FetchDelaySum
    \/ FetchImpactedPax
    \/ ApiSimulateDelay
    \/ ApiSimulateReset

SpecRead == Init /\ [][NextRead]_vars

----------------------------------------------------------------------------
(* The lifecycle next to the admin routes: the seeded network with a fifth  *)
(* flight that was cancelled from outside (no function writes CANCELLED),   *)
(* and a clock that stops at the ends of the windows of flights 1 and 3.    *)

LifeFlights ==
    Append(SeedFlights,
           [Flight(3, "CDG", "LHR", 30, 90, TRUE) EXCEPT !.status = "CANCELLED"])

LifeClock == {0, 30, 60, 90, 104, 105}

AdvanceTimeLife ==
    /\ \E t \in LifeClock : t > now /\ now' = t
    /\ UNCHANGED <<suggestions, db, api, chaos, poll, lastCall, lastResp, ops, faults>>

InitLife == InitWith(LifeFlights, SeedBookings)

NextLife ==
    \/ StatusTick
    \/ AdvanceTimeLife
    \/ ApiSimulateDelay
    \/ ApiSimulateReset

SpecLife == InitLife /\ [][NextLife]_vars

----------------------------------------------------------------------------
(* The lifecycle with ticks that keep recurring: the status-updater runs   *)
(* every ten seconds (every minute as a cron job), so the clock of the     *)
(* model moves on only from a state a tick leaves as it is and only to its *)
(* next value, and a tick that can change a status is eventually run.  The *)
(* routes are called a bounded number of times.                            *)

AdvanceTimeTicked ==
    /\ flights = update_flight_statuses(flights, now)
    /\ AdvanceTimeLife
    /\ \A t \in LifeClock : t > now => now' <= t

\* POST /api/simulate/reset, not straight after another reset
ResetOnce ==
    /\ lastResp.op # "reset"
    /\ ApiSimulateReset

NextLifeFair ==
    \/ StatusTick
    \/ AdvanceTimeTicked
    \/ ApiSimulateDelay
    \/ ResetOnce

SpecLifeFair ==
    /\ InitLife
    /\ [][NextLifeFair]_vars
    /\ WF_vars(StatusTick)
    /\ WF_vars(AdvanceTimeTicked)

----------------------------------------------------------------------------
(* The scenarios on a freshly reset network with three departures from JFK: *)
(* aircraft 1 flies 1 (JFK-LHR), 2 (LHR-JFK) and 3 (JFK-CDG) with 60        *)
(* minutes on the ground, aircraft 2 flies 4 into JFK, aircraft 3 flies 5   *)
(* out of JFK.                                                              *)

RotationFlights ==
    <<Flight(1, "JFK", "LHR", 30, 90, TRUE),
      Flight(1, "LHR", "JFK", 150, 210, TRUE),
      Flight(1, "JFK", "CDG", 270, 330, TRUE),
      Flight(2, "CDG", "JFK", 240, 300, TRUE),
      Flight(3, "JFK", "LHR", 60, 120, TRUE)>>

InitScenario == InitWith(RotationFlights, SeedBookings)

NextScenario ==
    \/ ApiScenarioStart
    \/ ApiScenarioDeparture
    \/ ApiScenarioArrivalsQuery
    \/ ApiScenarioArrival
    \/ ApiScenarioFinish
    \/ ChaosStart
    \/ ChaosDeparture
    \/ ChaosArrivalsQuery
    \/ ChaosArrival
    \/ ChaosSnapshot
    \/ ChaosStatuses

SpecScenario == InitScenario /\ [][NextScenario]_vars

----------------------------------------------------------------------------
(* The chaos-loop job on a network that holds a DELAYED and a CANCELLED     *)
(* flight: flight 1 (aircraft 1) and flight 2 (aircraft 2) carry a          *)
(* connecting passenger, flight 3 was cancelled from outside, and flight 2  *)
(* has been delayed by 15 minutes through POST /api/simulate/delay.         *)

RandomFlights ==
    <<Flight(1, "JFK", "LHR", 30, 90, TRUE),
      Flight(2, "LHR", "CDG", 135, 195, TRUE),
      [Flight(3, "CDG", "LHR", 30, 90, TRUE) EXCEPT !.status = "CANCELLED"]>>

RandomBookings == <<Booking(1, 1, 2), Booking(1, 2, NULL)>>

AfterManualDelay ==
    calculate_blast_radius(
        [flights |-> RandomFlights, bookings |-> RandomBookings, log |-> <<>>,
         inserts |-> 0, err |-> FALSE, steps |-> <<>>, guards |-> <<>>],
        2, 15, ManualCause, NULL, 0, [failAt |-> 0, tie |-> "low"])

InitRandom ==
    /\ \E tx \in {AfterManualDelay} :
        /\ flights = tx.flights
        /\ bookings = tx.bookings
        /\ disruption_log = tx.log
        /\ simulation_snapshots = save_simulation_snapshot(<<>>, tx.flights,
                                        tx.bookings, "Manual Delay: Random")
    /\ now = 0
    /\ api = Idle
    /\ chaos = Idle
    /\ poll = NoPoll
    /\ suggestions = {}
    /\ lastCall = NoCall
    /\ lastResp = [op |-> "delay", code |-> 200, failed |-> 0, flights_affected |-> 0]
    /\ ops = 0
    /\ faults = 0

NextRandom ==
    \/ CronChaos
    \/ StatusTick
    \/ AdvanceTime
    \/ ApiSimulateReset

SpecRandom == InitRandom /\ [][NextRandom]_vars

----------------------------------------------------------------------------
(* The rebooking search: a passenger flies 1 (JFK-LHR) and then 2 (LHR-CDG, *)
(* leaving 45 minutes after 1 arrives); flights 3 to 8 are the other        *)
(* LHR-CDG flights, each on its own aircraft.  Flights 4, 5 and 7 are full, *)
(* flight 6 has one seat left, flight 3 is empty and leaves at 100, flight  *)
(* 8 was cancelled from outside.  Flight 1 has been delayed by 16 minutes   *)
(* through POST /api/simulate/delay, which left the passenger 29 minutes.   *)

RebookFlights ==
    <<Flight(1, "JFK", "LHR", 30, 90, TRUE),
      Flight(2, "LHR", "CDG", 135, 195, TRUE),
      Flight(3, "LHR", "CDG", 100, 160, TRUE),
      Flight(4, "LHR", "CDG", 160, 220, TRUE),
      Flight(5, "LHR", "CDG", 170, 230, TRUE),
      Flight(6, "LHR", "CDG", 180, 240, TRUE),
      Flight(7, "LHR", "CDG", 195, 255, TRUE),
      [Flight(8, "LHR", "CDG", 150, 210, TRUE) EXCEPT !.status = "CANCELLED"]>>

RebookBookings ==
    <<Booking(1, 1, 2), Booking(1, 2, NULL), Booking(2, 4, NULL),
      Booking(3, 5, NULL), Booking(4, 6, NULL), Booking(5, 7, NULL)>>

AfterInboundDelay ==
    calculate_blast_radius(
        [flights |-> RebookFlights, bookings |-> RebookBookings, log |-> <<>>,
         inserts |-> 0, err |-> FALSE, steps |-> <<>>, guards |-> <<>>],
        1, 16, ManualCause, NULL, 0, [failAt |-> 0, tie |-> "low"])

InitRebook ==
    /\ \E tx \in {AfterInboundDelay} :
        /\ flights = tx.flights
        /\ bookings = tx.bookings
        /\ disruption_log = tx.log
        /\ simulation_snapshots = save_simulation_snapshot(<<>>, tx.flights,
                                        tx.bookings, "Manual Delay: Random")
    /\ now = 0
    /\ api = Idle
    /\ chaos = Idle
    /\ poll = NoPoll
    /\ suggestions = {}
    /\ lastCall = NoCall
    /\ lastResp = [op |-> "delay", code |-> 200, failed |-> 0, flights_affected |-> 0]
    /\ ops = 0
    /\ faults = 0

NextRebook ==
    \/ ApiRebookings
    \/ ApiSimulateDelay
    \/ ApiSimulateReset
    \/ StatusTick
    \/ AdvanceTime

SpecRebook == InitRebook /\ [][NextRebook]_vars

----------------------------------------------------------------------------
(* The snapshots next to the admin routes and the lifecycle tick, on the    *)
(* seeded network.                                                          *)

NextSnapshot ==
    \/ ApiSaveSnapshot
    \/ ApiSimulateDelay
    \/ ApiSimulateReset
    \/ StatusTick
    \/ AdvanceTime

SpecSnapshot == Init /\ [][NextSnapshot]_vars

----------------------------------------------------------------------------
(* A three-leg itinerary: passenger 1 flies 1 (JFK-LHR), 2 (LHR-CDG,        *)
(* leaving 45 minutes after 1 arrives) and 3 (CDG-FRA, leaving 30 minutes   *)
(* after 2 arrives), each flight on its own aircraft; passenger 2 flies 2   *)
(* and 3.  Flight 2 has been delayed by 16 minutes through                  *)
(* POST /api/simulate/delay, which broke both connections onto flight 3.    *)

ItineraryFlights ==
    <<Flight(1, "JFK", "LHR", 30, 90, TRUE),
      Flight(2, "LHR", "CDG", 135, 195, TRUE),
      Flight(3, "CDG", "FRA", 225, 285, TRUE)>>

ItineraryBookings ==
    <<Booking(1, 1, 2), Booking(1, 2, 3), Booking(1, 3, NULL),
      Booking(2, 2, 5), Booking(2, 3, NULL)>>

AfterOnwardDelay ==
    calculate_blast_radius(
        [flights |-> ItineraryFlights, bookings |-> ItineraryBookings, log |-> <<>>,
         inserts |-> 0, err |-> FALSE, steps |-> <<>>, guards |-> <<>>],
        2, 16, ManualCause, NULL, 0, [failAt |-> 0, tie |-> "low"])

InitItinerary ==
    /\ \E tx \in {AfterOnwardDelay} :
        /\ flights = tx.flights
        /\ bookings = tx.bookings
        /\ disruption_log = tx.log
        /\ simulation_snapshots = save_simulation_snapshot(<<>>, tx.flights,
                                        tx.bookings, "Manual Delay: Random")
    /\ now = 0
    /\ api = Idle
    /\ chaos = Idle
    /\ poll = NoPoll
    /\ suggestions = {}
    /\ lastCall = NoCall
    /\ lastResp = [op |-> "delay", code |-> 200, failed |-> 0, flights_affected |-> 0]
    /\ ops = 0
    /\ faults = 0

NextItinerary ==
    \/ ApiSimulateDelay
    \/ ApiSimulateReset
    \/ StatusTick
    \/ AdvanceTime

SpecItinerary == InitItinerary /\ [][NextItinerary]_vars

----------------------------------------------------------------------------
(* Properties.  lastCall is the record of the latest RPC of                *)
(* calculate_blast_radius: steps holds the invocations that passed the     *)
(* guard, guards those the guard turned away.                              *)

\* C1: one root call applies at most 21 delay steps, all of them at depths
\* 0..20, delays at most 21 flights and appends at most 21 log entries; an
\* invocation entered with depth > 20 leaves its flight as it was and logs
\* nothing
C1_DepthBound ==
    /\ Len(lastCall.steps) <= MaxDepth + 1
    /\ \A i \in DOMAIN lastCall.steps : lastCall.steps[i].depth \in 0..MaxDepth
    /\ Cardinality(lastCall.touched) <= MaxDepth + 1
    /\ Len(lastCall.post.log) - Len(lastCall.pre.log) <= MaxDepth + 1
    /\ \A i \in DOMAIN lastCall.guards :
        /\ lastCall.guards[i].depth > MaxDepth
        /\ lastCall.guards[i].flight \notin lastCall.touched
        /\ \A j \in DOMAIN lastCall.steps :
            lastCall.steps[j].flight # lastCall.guards[i].flight

\* a root call that ran 21 delay steps and was stopped by the guard
C1_GuardReached ==
    /\ ~lastCall.err
    /\ lastCall.guards # <<>>
    /\ Len(lastCall.steps) = MaxDepth + 1
    /\ Len(lastCall.post.log) = Len(lastCall.pre.log) + MaxDepth + 1

\* C2: delay_minutes of every flight is >= 0 in every state, and no RPC of
\* calculate_blast_radius or trigger_random_delay lowers it
C2_DelayNeverDecreases ==
    [][\A f \in DOMAIN flights :
        /\ flights'[f].delay_minutes >= 0
        /\ lastCall'.seq # lastCall.seq =>
            flights'[f].delay_minutes >= flights[f].delay_minutes]_vars

\* C3: every flight with actual times set has actual_dep = scheduled_dep +
\* delay_minutes and its scheduled duration
C3_ActualTimes ==
    \A f \in DOMAIN flights :
        (flights[f].actual_dep # <<>> /\ flights[f].actual_arr # <<>>) =>
            /\ flights[f].actual_dep[1] =
                    flights[f].scheduled_dep + flights[f].delay_minutes
            /\ flights[f].actual_arr[1] - flights[f].actual_dep[1] =
                    flights[f].scheduled_arr - flights[f].scheduled_dep

\* a flight seeded without actual times has been delayed, and so has another
C3_DelayedFromNull ==
    \E f, g \in DOMAIN flights :
        /\ f # g
        /\ SeedFlights[f].actual_dep = <<>>
        /\ flights[f].actual_dep # <<>>
        /\ flights[f].delay_minutes > 0
        /\ flights[g].delay_minutes > 0

\* C4 as the code has it: the flight chosen in the turnaround step is the
\* earliest other flight of the aircraft, not LANDED or CANCELLED, whose
\* effective departure is at or after the delayed flight's new departure
C4_NextByDeparture ==
    \A i \in DOMAIN lastCall.steps :
        LET s == lastCall.steps[i]
            E == {g \in DOMAIN s.seen :
                    /\ g # s.flight
                    /\ s.seen[s.flight].aircraft_id # NULL
                    /\ s.seen[g].aircraft_id = s.seen[s.flight].aircraft_id
                    /\ s.seen[g].dep >= s.new_dep
                    /\ s.seen[g].status \notin {"LANDED", "CANCELLED"}}
        IN  IF E = {} THEN s.next = NULL
            ELSE /\ s.next \in E
                 /\ \A g \in E : s.seen[s.next].dep <= s.seen[g].dep

\* the chosen flight departs before the delayed flight's new arrival
C4_ChosenBeforeArrival ==
    \E i \in DOMAIN lastCall.steps :
        /\ lastCall.steps[i].next # NULL
        /\ lastCall.steps[i].seen[lastCall.steps[i].next].dep
                < lastCall.steps[i].new_arr

\* C4 as stated: the flight chosen is the earliest other flight of the
\* aircraft, not LANDED or CANCELLED, whose effective departure is at or
\* after the delayed flight's new arrival
C4_NextByArrival ==
    \A i \in DOMAIN lastCall.steps :
        LET s == lastCall.steps[i]
            E == {g \in DOMAIN s.seen :
                    /\ g # s.flight
                    /\ s.seen[s.flight].aircraft_id # NULL
                    /\ s.seen[g].aircraft_id = s.seen[s.flight].aircraft_id
                    /\ s.seen[g].dep >= s.new_arr
                    /\ s.seen[g].status \notin {"LANDED", "CANCELLED"}}
        IN  IF E = {} THEN s.next = NULL
            ELSE /\ s.next \in E
                 /\ \A g \in E : s.seen[s.next].dep <= s.seen[g].dep

\* C5 as the code has it: with a next flight N found, forced = 45 - (minutes
\* from the new arrival to N's departure); N is delayed, by exactly forced,
\* if and only if forced > 0 and the invocation runs at a depth below 20
C5_ForcedDelayBelowLimit ==
    \A i \in DOMAIN lastCall.steps :
        LET s == lastCall.steps[i]
            forced == v_min_turnaround - (s.seen[s.next].dep - s.new_arr)
            child == {j \in DOMAIN lastCall.steps :
                        /\ lastCall.steps[j].from = s.flight
                        /\ lastCall.steps[j].depth = s.depth + 1}
        IN  (s.next # NULL /\ ~lastCall.err) =>
                IF forced > 0 /\ s.depth < MaxDepth
                THEN /\ \E j \in child :
                            /\ lastCall.steps[j].flight = s.next
                            /\ lastCall.steps[j].delay = forced
                            /\ lastCall.steps[j].new_dep = s.seen[s.next].dep + forced
                     /\ lastCall.post.flights[s.next].delay_minutes =
                            s.seen[s.next].delay_minutes + forced
                ELSE /\ child = {}
                     /\ lastCall.post.flights[s.next].delay_minutes =
                            s.seen[s.next].delay_minutes
                     /\ EffDep(lastCall.post.flights[s.next]) = s.seen[s.next].dep

\* a gap of 44 minutes has put a delay of 1 minute on the next flight
C5_OneMinuteCascade ==
    \E i, j \in DOMAIN lastCall.steps :
        /\ ~lastCall.err
        /\ lastCall.steps[i].next # NULL
        /\ lastCall.steps[i].seen[lastCall.steps[i].next].dep
                - lastCall.steps[i].new_arr = 44
        /\ lastCall.steps[j].from = lastCall.steps[i].flight
        /\ lastCall.steps[j].flight = lastCall.steps[i].next
        /\ lastCall.steps[j].delay = 1

\* C5 as stated: with a next flight N found, N is delayed, by exactly
\* forced, if and only if forced > 0
C5_ForcedDelay ==
    \A i \in DOMAIN lastCall.steps :
        LET s == lastCall.steps[i]
            forced == v_min_turnaround - (s.seen[s.next].dep - s.new_arr)
            child == {j \in DOMAIN lastCall.steps :
                        /\ lastCall.steps[j].from = s.flight
                        /\ lastCall.steps[j].depth = s.depth + 1}
        IN  (s.next # NULL /\ ~lastCall.err) =>
                IF forced > 0
                THEN /\ \E j \in child :
                            /\ lastCall.steps[j].flight = s.next
                            /\ lastCall.steps[j].delay = forced
                            /\ lastCall.steps[j].new_dep = s.seen[s.next].dep + forced
                     /\ lastCall.post.flights[s.next].delay_minutes =
                            s.seen[s.next].delay_minutes + forced
                ELSE /\ child = {}
                     /\ lastCall.post.flights[s.next].delay_minutes =
                            s.seen[s.next].delay_minutes
                     /\ EffDep(lastCall.post.flights[s.next]) = s.seen[s.next].dep

\* C6: for every CONFIRMED booking b of the delayed flight with a forward
\* link, b and the linked booking become MISSED_CONNECTION if and only if the
\* linked flight departs less than 30 minutes after the new arrival;
\* otherwise both keep their status
C6_ConnectionBoundary ==
    \A i \in DOMAIN lastCall.steps :
        LET s == lastCall.steps[i]
        IN  \A b \in DOMAIN s.linked_dep :
                IF s.linked_dep[b] - s.new_arr < v_min_connection
                THEN /\ s.bpost[b] = "MISSED_CONNECTION"
                     /\ s.bpost[bookings[b].next_booking_id] = "MISSED_CONNECTION"
                     /\ lastCall.err \/
                          /\ lastCall.post.bookings[b].status = "MISSED_CONNECTION"
                          /\ lastCall.post.bookings[bookings[b].next_booking_id].status
                                = "MISSED_CONNECTION"
                ELSE /\ s.bpost[b] = s.bpre[b]
                     /\ s.bpost[bookings[b].next_booking_id] =
                            s.bpre[bookings[b].next_booking_id]

\* a connection of 29 minutes has been marked
C6_Marked29 ==
    \E i \in DOMAIN lastCall.steps :
        \E b \in DOMAIN lastCall.steps[i].linked_dep :
            /\ ~lastCall.err
            /\ lastCall.steps[i].linked_dep[b] - lastCall.steps[i].new_arr = 29
            /\ lastCall.post.bookings[b].status = "MISSED_CONNECTION"

\* C7: every invocation that passes the guard appends exactly one log entry
\* for its own flight with the delay applied, the cause and the causing
\* flight; flights_impacted is the number of flights the invocation cascaded
\* a delay onto and passengers_impacted the number of bookings of its own
\* flight it changed from CONFIRMED to MISSED_CONNECTION
C7_LogEntry ==
    /\ ~lastCall.err =>
            Len(lastCall.post.log) = Len(lastCall.pre.log) + Len(lastCall.steps)
    /\ \A i \in DOMAIN lastCall.steps :
        LET s == lastCall.steps[i]
            cascaded == {j \in DOMAIN lastCall.steps :
                            /\ lastCall.steps[j].from = s.flight
                            /\ lastCall.steps[j].depth = s.depth + 1}
            missed == {b \in DOMAIN s.bpre :
                            /\ bookings[b].flight_id = s.flight
                            /\ s.bpre[b] = "CONFIRMED"
                            /\ s.bpost[b] = "MISSED_CONNECTION"}
        IN  /\ ~lastCall.err => lastCall.post.log[Len(lastCall.pre.log) + i] = s.entry
            /\ s.entry.flight_id = s.flight
            /\ s.entry.delay_minutes = s.seen[s.flight].delay_minutes
                    - lastCall.pre.flights[s.flight].delay_minutes
            /\ s.depth = 0 => s.entry.cascaded_from_flight_id = NULL
            /\ s.depth > 0 =>
                \E j \in DOMAIN lastCall.steps :
                    /\ lastCall.steps[j].depth = s.depth - 1
                    /\ lastCall.steps[j].next = s.flight
                    /\ s.entry.cascaded_from_flight_id = lastCall.steps[j].flight
                    /\ s.entry.cause = TurnaroundCause(lastCall.steps[j].flight)
            /\ s.entry.flights_impacted = Cardinality(cascaded)
            /\ s.entry.passengers_impacted = Cardinality(missed)

\* C8: an RPC of calculate_blast_radius that raised an exception, in the root
\* call or in a recursive call, leaves flights, bookings and disruption_log
\* as they were before it
C8_FailedCallChangesNothing ==
    [][(lastCall'.seq # lastCall.seq /\ lastCall'.err) =>
            UNCHANGED <<flights, bookings, disruption_log>>]_vars

\* a call failed after it had delayed two flights or more
C8_FailedAfterCascade ==
    /\ lastCall.err
    /\ Cardinality(lastCall.touched) >= 2
    /\ lastCall.post = lastCall.pre

\* C9: a scenario request with an id no catalog has is answered with an
\* error and changes no flight, booking, log entry or snapshot, on the API
\* route and on the chaos-simulator
C9_UnknownScenarioRejected ==
    [][/\ (/\ api.pc = "idle" /\ api' # api
           /\ api'.mode = "scenario" /\ api'.scenario \notin DOMAIN SCENARIOS) =>
                /\ UNCHANGED db
                /\ api'.pc = "idle"
                /\ lastResp'.code >= 400
       /\ (/\ chaos.pc = "idle" /\ chaos' # chaos
           /\ chaos'.mode = "scenario" /\ chaos'.scenario \notin DOMAIN SCENARIOS) =>
                /\ UNCHANGED db
                /\ chaos'.pc = "idle"
                /\ lastResp'.code >= 400]_vars

\* C10: a scenario in which the propagation of one flight failed answers
\* with an error and none of its delays stays applied
C10_ScenarioAllOrNothing ==
    (lastResp.op \in {"scenario", "chaos"} /\ lastResp.failed > 0) =>
        /\ lastResp.code >= 400
        /\ lastResp.flights_affected = 0

\* C11: a scenario loop runs as one atomic unit: once it has delayed a flight
\* and while it has flights left to delay, no step of another caller (reset,
\* lifecycle tick, another trigger, snapshot save) changes the tables
C11_ScenarioLoopAtomic ==
    [][/\ (/\ api.pc \in {"departures", "arrivals"}
           /\ api.ok \cup api.failed # {} /\ api.todo # {}
           /\ api' = api) => UNCHANGED db
       /\ (/\ chaos.pc \in {"departures", "arrivals"}
           /\ chaos.ok \cup chaos.failed # {} /\ chaos.todo # {}
           /\ chaos' = chaos) => UNCHANGED db]_vars

\* C12: the state fetchWorldState returns is one state of the database: its
\* metrics.delayed_flights is the number of DELAYED flights in its flight
\* list and its metrics.total_delay_minutes the sum of their delays
C12_WorldStateConsistent ==
    poll.pc = "emitted" =>
        /\ poll.delayedCount =
                Cardinality({f \in DOMAIN poll.flights : poll.flights[f].status = "DELAYED"})
        /\ poll.totalDelay =
                SumDelay(poll.flights,
                    {f \in DOMAIN poll.flights : poll.flights[f].status = "DELAYED"})

\* C13: a reset leaves every flight with actual times equal to scheduled
\* times, delay 0 and status SCHEDULED, every booking CONFIRMED and the
\* disruption log empty, so the state holds no DELAYED flight and no
\* MISSED_CONNECTION booking; the snapshots are as they were
C13_ResetRestoresBaseline ==
    [][ApiSimulateReset =>
        /\ \A f \in DOMAIN flights' :
            /\ flights'[f].actual_dep = <<flights'[f].scheduled_dep>>
            /\ flights'[f].actual_arr = <<flights'[f].scheduled_arr>>
            /\ flights'[f].delay_minutes = 0
            /\ flights'[f].status = "SCHEDULED"
            /\ flights'[f].scheduled_dep = flights[f].scheduled_dep
            /\ flights'[f].scheduled_arr = flights[f].scheduled_arr
        /\ DOMAIN flights' = DOMAIN flights
        /\ DOMAIN bookings' = DOMAIN bookings
        /\ \A b \in DOMAIN bookings' : bookings'[b].status = "CONFIRMED"
        /\ disruption_log' = <<>>
        /\ Metrics(flights', bookings').delayed_flights = 0
        /\ Metrics(flights', bookings').missed_connections = 0
        /\ simulation_snapshots' = simulation_snapshots]_vars

\* a reset has followed a delay that cascaded, broke a connection, was
\* logged and was saved in a snapshot
C13_ResetAfterDisruption ==
    /\ lastResp.op = "reset"
    /\ ~lastCall.err
    /\ Cardinality(lastCall.touched) >= 2
    /\ \E b \in DOMAIN lastCall.post.bookings :
            lastCall.post.bookings[b].status = "MISSED_CONNECTION"
    /\ simulation_snapshots # <<>>
    /\ simulation_snapshots[1].metrics.delayed_flights >= 2
    /\ disruption_log = <<>>
    /\ \A f \in DOMAIN flights : flights[f].status = "SCHEDULED"
    /\ \A b \in DOMAIN bookings : bookings[b].status = "CONFIRMED"

\* C14: a lifecycle tick at time now changes the status of a flight, by its
\* effective departure and arrival, from SCHEDULED to BOARDING when
\* 0 < departure - now <= 30, from BOARDING or DELAYED to ACTIVE when
\* departure <= now < arrival, from ACTIVE to LANDED when now >= arrival, and
\* leaves every other flight, LANDED and CANCELLED among them, as it was
C14_LifecycleTransitions ==
    [][StatusTick =>
        \A f \in DOMAIN flights :
            LET dep == IF flights[f].actual_dep # <<>> THEN flights[f].actual_dep[1]
                       ELSE flights[f].scheduled_dep
                arr == IF flights[f].actual_arr # <<>> THEN flights[f].actual_arr[1]
                       ELSE flights[f].scheduled_arr
                old == flights[f].status
            IN  flights'[f].status =
                    IF old = "SCHEDULED" /\ now < dep /\ dep - now <= 30 THEN "BOARDING"
                    ELSE IF old \in {"BOARDING", "DELAYED"} /\ dep <= now /\ now < arr
                    THEN "ACTIVE"
                    ELSE IF old = "ACTIVE" /\ now >= arr THEN "LANDED"
                    ELSE old]_vars

\* ticks have taken a delayed flight to LANDED and a flight without actual
\* times to BOARDING, and have left a CANCELLED flight past its arrival as
\* it was
C14_AllTransitionsSeen ==
    /\ now = 105
    /\ \E f \in DOMAIN flights :
            flights[f].status = "LANDED" /\ flights[f].delay_minutes > 0
    /\ \E f \in DOMAIN flights :
            flights[f].status = "BOARDING" /\ flights[f].actual_dep = <<>>
    /\ \E f \in DOMAIN flights :
            flights[f].status = "CANCELLED" /\ EffArr(flights[f]) <= now

\* C15: a second lifecycle tick at the same time changes nothing, and a tick
\* changes no field of a flight but its status, no booking, no log entry
\* and no snapshot
C15_TickIdempotent ==
    [][StatusTick =>
        /\ update_flight_statuses(flights', now') = flights'
        /\ \A f \in DOMAIN flights :
                flights'[f] = [flights[f] EXCEPT !.status = flights'[f].status]
        /\ DOMAIN flights' = DOMAIN flights
        /\ bookings' = bookings
        /\ disruption_log' = disruption_log
        /\ simulation_snapshots' = simulation_snapshots]_vars

\* ticks have moved flights, one of them delayed, next to missed
\* connections, log entries and a snapshot
C15_TickedAfterDelay ==
    /\ \E f \in DOMAIN flights : flights[f].status = "BOARDING"
    /\ \E f \in DOMAIN flights :
            /\ flights[f].status = "ACTIVE"
            /\ flights[f].delay_minutes > 0
    /\ \E b \in DOMAIN bookings : bookings[b].status = "MISSED_CONNECTION"
    /\ disruption_log # <<>>
    /\ simulation_snapshots # <<>>

\* C16: no step sets the status of a flight to CANCELLED, and no step
\* changes the status, the times or the delay of a CANCELLED flight
C16_CancelledTerminal ==
    [][\A f \in DOMAIN flights :
        /\ flights'[f].status = "CANCELLED" => flights[f].status = "CANCELLED"
        /\ flights[f].status = "CANCELLED" => flights'[f] = flights[f]]_vars

\* C17: a flight becomes DELAYED only from SCHEDULED, BOARDING or ACTIVE (or
\* stays DELAYED), and no RPC of the engine makes a LANDED flight DELAYED or
\* shifts its actual times
C17_LandedNeverDelayed ==
    [][\A f \in DOMAIN flights :
        /\ flights'[f].status = "DELAYED" =>
                flights[f].status \in {"SCHEDULED", "BOARDING", "ACTIVE", "DELAYED"}
        /\ (flights[f].status = "LANDED" /\ lastCall'.seq # lastCall.seq) =>
                /\ flights'[f].actual_dep = flights[f].actual_dep
                /\ flights'[f].actual_arr = flights[f].actual_arr]_vars

C21_RebookingSuggestion ==
    [][ApiRebookings =>
        /\ \A s \in suggestions' :
            /\ s.booking_id \in DOMAIN bookings
            /\ bookings[s.booking_id].status = "MISSED_CONNECTION"
            /\ bookings[s.booking_id].next_booking_id # NULL
            /\ \A r \in suggestions' : r.booking_id = s.booking_id => r = s
        /\ \A b \in DOMAIN bookings :
            (bookings[b].status = "MISSED_CONNECTION" /\ bookings[b].next_booking_id # NULL) =>
                LET missed == bookings[bookings[b].next_booking_id].flight_id
                    dep == [f \in DOMAIN flights |->
                                IF flights[f].actual_dep # <<>> THEN flights[f].actual_dep[1]
                                ELSE flights[f].scheduled_dep]
                    seats == [f \in DOMAIN flights |->
                                Capacity[flights[f].aircraft_id]
                                - Cardinality({x \in DOMAIN bookings :
                                    /\ bookings[x].flight_id = f
                                    /\ bookings[x].status \in {"CONFIRMED", "REBOOKED"}})]
                    cand == {f \in DOMAIN flights :
                                /\ flights[f].origin_code = flights[missed].origin_code
                                /\ flights[f].destination_code = flights[missed].destination_code
                                /\ dep[f] > now
                                /\ flights[f].status \notin {"LANDED", "CANCELLED"}
                                /\ f # missed}
                    rows == {s \in suggestions' : s.booking_id = b}
                IN  /\ \A s \in rows :
                        /\ s.suggested_flight_id \in cand
                        /\ seats[s.suggested_flight_id] > 0
                        /\ s.seats_available = seats[s.suggested_flight_id]
                        /\ Cardinality({g \in cand : dep[g] < dep[s.suggested_flight_id]}) <= 2
                        /\ \A g \in cand :
                            dep[g] < dep[s.suggested_flight_id] => seats[g] <= 0
                    /\ rows = {} =>
                        \A f \in cand :
                            seats[f] > 0 =>
                                Cardinality({g \in cand : g # f /\ dep[g] <= dep[f]}) >= 3]_vars

\* the search has passed over two full flights and suggested the third
\* candidate, which has one seat, while a later flight is not considered
C21_ThirdCandidateSuggested ==
    \E s \in suggestions :
        /\ s.seats_available = 1
        /\ s.suggested_flight_id = 6
        /\ now > EffDep(flights[3])
        /\ flights[8].status = "CANCELLED"
        /\ EffDep(flights[4]) < EffDep(flights[6])
        /\ EffDep(flights[5]) < EffDep(flights[6])
        /\ bookings[1].status = "MISSED_CONNECTION"

\* C22: a request to POST /api/simulate/delay that carries a flightId and a
\* non-negative delayMinutes (the number 0 included) delays exactly that flight
\* by exactly that amount, and the random trigger runs only for a request that
\* lacks flightId or delayMinutes.  Violated: the route tests
\* "flightId && delayMinutes", the number 0 is falsy, and the request goes to
\* trigger_random_delay.
C22_RequestedDelayApplied ==
    [][ApiSimulateDelay =>
         LET body == lastResp'.body
             supplied == {"flightId", "delayMinutes"} \subseteq body.sent
         IN  (supplied /\ body.delayMinutes >= 0)
                 => /\ lastCall'.flight = body.flightId
                    /\ lastCall'.delay = body.delayMinutes]_vars

C24_LogIsCauseChain ==
    (lastCall.pre.flights # <<>> /\ ~lastCall.err) =>
        LET e == SubSeq(lastCall.post.log, Len(lastCall.pre.log) + 1, Len(lastCall.post.log))
            n == Len(e)
        IN  /\ n >= 1
            /\ e[n].flight_id = lastCall.flight
            /\ e[n].cascaded_from_flight_id = NULL
            /\ \A i \in 1..(n - 1) :
                /\ e[i].cascaded_from_flight_id # NULL
                /\ e[i].cascaded_from_flight_id = e[i + 1].flight_id
                /\ e[i].cause = [text |-> "Aircraft turnaround from flight",
                                 flight |-> e[i + 1].flight_id]

\* a root call whose cascade ran at least three flights deep was committed
C24_ThreeDeepChain ==
    /\ lastCall.pre.flights # <<>>
    /\ ~lastCall.err
    /\ Len(lastCall.post.log) >= Len(lastCall.pre.log) + 3
    /\ lastCall.post.log[Len(lastCall.pre.log) + 1].cascaded_from_flight_id # NULL

\* C25: when the flights of every aircraft were at least 45 minutes apart
\* before a root call of calculate_blast_radius on flight F, and the call
\* committed without reaching the depth limit, every flight of F's aircraft
\* that left after F and is not LANDED or CANCELLED leaves at least 45 minutes
\* after the arrival of the flight before it in the rotation.  Violated: a
\* delay that moves F's departure past the departure of the next flight makes
\* the query for the next flight skip it.
C25_TurnaroundKept ==
    LET pre == lastCall.pre.flights
        post == lastCall.post.flights
        Rotation(g) == {p \in DOMAIN pre : p # g /\ pre[p].aircraft_id = pre[g].aircraft_id}
        Before(p, g) == EffDep(pre[p]) < EffDep(pre[g])
        Pred(g) == {p \in Rotation(g) : /\ Before(p, g)
                                        /\ \A q \in Rotation(g) : Before(q, g) => ~Before(p, q)}
    IN  (/\ lastCall.flight \in DOMAIN pre
         /\ ~lastCall.err
         /\ lastCall.guards = <<>>
         /\ \A g \in DOMAIN pre : \A p \in Pred(g) : EffDep(pre[g]) - EffArr(pre[p]) >= v_min_turnaround)
        => \A g \in Rotation(lastCall.flight) :
              (Before(lastCall.flight, g) /\ post[g].status \notin {"LANDED", "CANCELLED"})
                  => \A p \in Pred(g) : EffDep(post[g]) - EffArr(post[p]) >= v_min_turnaround

\* C26: STEP 3 of an invocation runs after its recursive call and reads the
\* departure the call has written: a booking that is CONFIRMED on the
\* invocation's flight and whose linked booking is on the flight the
\* invocation cascaded onto is not marked MISSED_CONNECTION by the invocation.
C26_SameAircraftConnectionKept ==
    \A i \in DOMAIN lastCall.steps :
        LET s == lastCall.steps[i]
            bk == lastCall.pre.bookings
        IN  (/\ s.entry.flights_impacted = 1
             /\ \E j \in 1..(i - 1) : /\ lastCall.steps[j].flight = s.next
                                      /\ lastCall.steps[j].from = s.flight
                                      /\ lastCall.steps[j].depth = s.depth + 1)
            => \A b \in DOMAIN bk :
                  (/\ bk[b].flight_id = s.flight
                   /\ s.bpre[b] = "CONFIRMED"
                   /\ bk[b].next_booking_id \in DOMAIN bk
                   /\ bk[bk[b].next_booking_id].flight_id = s.next)
                  => s.bpost[b] = "CONFIRMED"

\* an invocation cascaded onto the flight of a linked booking that left less
\* than 30 minutes after the new arrival before the cascade, and the booking
\* stayed CONFIRMED
C26_ConnectionSavedByCascade ==
    /\ ~lastCall.err
    /\ \E i \in DOMAIN lastCall.steps :
        LET s == lastCall.steps[i]
            bk == lastCall.pre.bookings
        IN  /\ s.entry.flights_impacted = 1
            /\ \E j \in 1..(i - 1) : /\ lastCall.steps[j].flight = s.next
                                     /\ lastCall.steps[j].from = s.flight
            /\ \E b \in DOMAIN bk :
                  /\ bk[b].flight_id = s.flight
                  /\ s.bpre[b] = "CONFIRMED"
                  /\ bk[b].next_booking_id \in DOMAIN bk
                  /\ bk[bk[b].next_booking_id].flight_id = s.next
                  /\ s.seen[s.next].dep - s.new_arr < v_min_connection
                  /\ s.bpost[b] = "CONFIRMED"

\* C27: with ticks that keep recurring and the routes no longer called, every
\* flight that is not CANCELLED and whose effective arrival has passed ends
\* up LANDED and stays so.  Violated: a tick moves a flight on only inside
\* its window; a flight that is SCHEDULED when its departure has passed (after
\* a reset) or DELAYED when its arrival has passed is never picked up again.
C27_EventuallyLanded ==
    \A f \in DOMAIN LifeFlights :
        <>[](\/ flights[f].status = "CANCELLED"
             \/ now < EffArr(flights[f])
             \/ flights[f].status = "LANDED")

\* C28: a step that is not a reset leaves the status of every booking as it
\* is or moves it from CONFIRMED to MISSED_CONNECTION; no booking goes back
\* to CONFIRMED or becomes REBOOKED or CANCELLED, whatever the later delays
\* do to the gap of its connection.
C28_BookingStatusMonotone ==
    [][ApiSimulateReset \/
        \A b \in DOMAIN bookings :
            \/ bookings'[b].status = bookings[b].status
            \/ /\ bookings[b].status = "CONFIRMED"
               /\ bookings'[b].status = "MISSED_CONNECTION"]_vars

\* a delay of the onward flight 2 was committed while booking 1 was marked;
\* flight 2 now leaves 30 minutes or more after flight 1 arrives and the
\* booking is still marked
C28_StillMissedAfterOnwardDelay ==
    /\ lastCall.flight = 2
    /\ lastCall.delay > 0
    /\ ~lastCall.err
    /\ lastCall.pre.bookings[1].status = "MISSED_CONNECTION"
    /\ EffDep(flights[2]) - EffArr(flights[1]) >= v_min_connection
    /\ bookings[1].status = "MISSED_CONNECTION"
    /\ bookings[2].status = "MISSED_CONNECTION"

\* C29: a booking is counted in passengers_impacted at most once between
\* resets, and every counted booking is marked together with its linked
\* booking: the sum S of passengers_impacted over the rows of disruption_log
\* and the number M of MISSED_CONNECTION bookings satisfy S <= M <= 2 * S.
C29_ImpactedWithinMissed ==
    LET RECURSIVE Sum(_)
        Sum(n) == IF n = 0 THEN 0
                  ELSE disruption_log[n].passengers_impacted + Sum(n - 1)
        S == Sum(Len(disruption_log))
        M == Cardinality({b \in DOMAIN bookings : bookings[b].status = "MISSED_CONNECTION"})
    IN  S <= M /\ M <= 2 * S

\* three bookings were counted in two calls and five bookings are marked:
\* booking 2 was marked as a counted booking and again as a linked one
C29_SharedLinkedBooking ==
    /\ Len(disruption_log) = 2
    /\ disruption_log[1].passengers_impacted = 2
    /\ disruption_log[2].passengers_impacted = 1
    /\ \A b \in DOMAIN bookings : bookings[b].status = "MISSED_CONNECTION"

\* C30: every row GET /api/rebookings returns suggests a flight that leaves
\* no earlier than the effective arrival of the flight of the missed
\* booking, the passenger's inbound flight.  Violated: the search only asks
\* for a departure after NOW().
C30_SuggestionAfterInboundArrival ==
    [][ApiRebookings =>
         \A r \in suggestions' :
            r.suggested_dep >= EffArr(flights[bookings[r.booking_id].flight_id])]_vars

====
